---- MODULE Spec2Model ----
(***************************************************************************)
(* Model of pobu::owned_pointer (src/owned_pointer.hpp): shared observer    *)
(* handles over a control block <ptr, acquired, deleted>, the one-time      *)
(* hand-off to a std::unique_ptr, and the destruction beacon                *)
(* (shared_secret / destruction_notify_object).                             *)
(*                                                                          *)
(* Addresses are 1..MaxAddr, 0 is nullptr.  Control blocks are numbered     *)
(* 1..MaxHandles, 0 is the empty std::shared_ptr.  An owned_pointer has no  *)
(* member besides its std::shared_ptr base, so the handles of the program   *)
(* are kept as the number of handles whose base is each control block       *)
(* (its use_count) and the number of empty handles; likewise a unique_ptr   *)
(* is its address, and the unique_ptrs are counted per address.             *)
(* operator new hands out an address that holds no live object and that no  *)
(* control block or unique_ptr still points to, so an address names one     *)
(* object for as long as anything refers to it.                             *)
(***************************************************************************)
EXTENDS Integers, FiniteSets, Sequences, TLC

MaxHandles == 2
MaxUnique == 2
MaxAddr == 1

Addrs == 1..MaxAddr
Pointers == 0..MaxAddr
CBs == 1..MaxHandles
Bases == 0..MaxHandles

VARIABLES blocks, handles, uniques, heap, ub, last, calls

vars == <<blocks, handles, uniques, heap, ub, last, calls>>

\* everything but the record of the last result
prog == <<blocks, handles, uniques, heap, ub, calls>>

\* ------------------------------------------------------------------------
\* Data
\* ------------------------------------------------------------------------

\* using control_block = std::tuple<void*, bool, bool>
control_block(p, a, d) == [ptr |-> p, acquired |-> a, deleted |-> d]

\* value of a control block slot that is not allocated
NoBlock == control_block(0, FALSE, FALSE)

\* an object on the heap: live from new to delete; secret when it is a
\* destruction_notify_object (it has the shared_secret base)
object(l, sec, w) == [live |-> l, secret |-> sec, weak_control_block |-> w]

\* an address that holds no object
NoObject == object(FALSE, FALSE, 0)

\* the last result after an operation that returns nothing
Void == [op |-> "void", cb |-> 0, ret |-> 0, thrown |-> "none"]

\* the threads that call unique_ptr() at the same time, one handle each
Threads == 1..MaxHandles

\* a call of unique_ptr() in progress: the line of owned_pointer.hpp it is
\* about to execute, or its outcome, and the pointer it has returned
call(pc, ret) == [pc |-> pc, ret |-> ret]

\* the calls in progress on the handles of control block base, whose
\* acquired flag was before when the threads started
in_progress(base, before, of) == [base |-> base, before |-> before, of |-> of]

\* no thread but the main thread
NoCalls == in_progress(0, FALSE, [t \in Threads |-> call("idle", 0)])

\* the program state as one record, so that the functions of the source
\* can be written as operators from state to state
State ==
  [blocks |-> blocks, handles |-> handles, uniques |-> uniques,
   heap |-> heap, ub |-> ub]

\* what the last call returned to its caller: unique_ptr() on a handle of
\* block cb, or get(); the address returned, the exception thrown
Result(op, cb, ret, thrown) ==
  [op |-> op, cb |-> cb, ret |-> ret, thrown |-> thrown]

\* ------------------------------------------------------------------------
\* std::shared_ptr / std::weak_ptr / std::unique_ptr
\* ------------------------------------------------------------------------

\* shared_ptr::use_count() of the handles whose base is block c
use_count(s, c) == s.handles[c]

\* the number of owned_pointer objects, empty ones included
NumHandles(s) ==
  Cardinality({p \in Bases \X (1..MaxHandles) : p[2] <= s.handles[p[1]]})

\* the number of unique_ptr objects, empty ones included
NumUniques(s) ==
  Cardinality({p \in Pointers \X (1..MaxUnique) : p[2] <= s.uniques[p[1]]})

\* weak_ptr::lock(): the block, or empty when no shared_ptr owns it any more
lock(s, w) == IF w # 0 /\ use_count(s, w) > 0 THEN w ELSE 0

\* the least control block number not in use
FreeBlock(s) ==
  CHOOSE c \in CBs : /\ use_count(s, c) = 0
                     /\ \A d \in CBs : d < c => use_count(s, d) > 0

\* ------------------------------------------------------------------------
\* detail::shared_secret, destruction_notify_object, detail::deleter
\* ------------------------------------------------------------------------

\* delete_event() that leaves the control block alone
delete_event_skipped(s, a) == s

\* void delete_event() { if(auto p = weak_control_block.lock()) std::get<_deleted>(*p) = true; }
delete_event(s, a) ==
  LET p == lock(s, s.heap[a].weak_control_block)
  IN  IF p # 0 THEN [s EXCEPT !.blocks[p].deleted = TRUE] ELSE s

\* delete static_cast<T*>(a): runs ~destruction_notify_object when the object
\* carries the beacon; deleting an address that holds no object is undefined
delete(s, a) ==
  IF a = 0 THEN s
  ELSE IF ~s.heap[a].live THEN [s EXCEPT !.ub = TRUE]
  ELSE LET s1 == IF s.heap[a].secret THEN delete_event(s, a) ELSE s
       IN  [s1 EXCEPT !.heap[a] = NoObject]

\* the weak_ptrs to a freed control block are expired: lock() gives nothing
expire(s, c) ==
  [s EXCEPT !.blocks[c] = NoBlock,
            !.heap = [a \in Addrs |->
                        IF s.heap[a].weak_control_block = c
                        THEN [s.heap[a] EXCEPT !.weak_control_block = 0]
                        ELSE s.heap[a]]]

\* a deleter that deletes the resource whatever the acquired flag says
deleter_ignores_acquired(s, c) ==
  expire(delete(s, s.blocks[c].ptr), c)

\* a deleter with the test of the acquired flag inverted
deleter_inverted(s, c) ==
  LET s1 == IF s.blocks[c].acquired THEN delete(s, s.blocks[c].ptr) ELSE s
  IN  expire(s1, c)

\* deleter::operator()(control_block* cb)
deleter(s, c) ==
  LET s1 == IF ~s.blocks[c].acquired THEN delete(s, s.blocks[c].ptr) ELSE s
  IN  expire(s1, c)

\* a handle whose base was block c has let go of it: the last owner runs
\* the deleter
unshare(s, c) ==
  IF c # 0 /\ use_count(s, c) = 0 THEN deleter(s, c) ELSE s

\* shared_ptr::operator= on a handle whose base is block c (0: none): it
\* shares block b from now on and lets go of c
assign(s, c, b) ==
  unshare([s EXCEPT !.handles[b] = @ + 1, !.handles[c] = @ - 1], c)

\* ~shared_ptr of a handle whose base is block c
release(s, c) == unshare([s EXCEPT !.handles[c] = @ - 1], c)

\* a new handle comes into being with base b
Bind(s, b) == [s EXCEPT !.handles[b] = @ + 1]

\* ------------------------------------------------------------------------
\* owned_pointer
\* ------------------------------------------------------------------------

\* element_type* get_pointer() const noexcept, on a handle whose base is b
get_pointer(s, b) == IF b # 0 THEN s.blocks[b].ptr ELSE 0

\* bool acquired() const noexcept
acquired(s, b) == b # 0 /\ s.blocks[b].acquired

\* bool expired() const noexcept
expired(s, b) == b # 0 /\ s.blocks[b].deleted

\* the beacon found, but the control block it points to never recovered
get_secret_without_lock(s, p) ==
  IF p # 0 /\ s.heap[p].live /\ s.heap[p].secret
  THEN [ss |-> p, base |-> 0]
  ELSE [ss |-> 0, base |-> 0]

\* get_secret_when_possible(p): dynamic_cast<shared_secret*>(p) and, when it
\* succeeds, base::operator=(ss->weak_control_block.lock())
get_secret_when_possible(s, p) ==
  IF p # 0 /\ s.heap[p].live /\ s.heap[p].secret
  THEN [ss |-> p, base |-> lock(s, s.heap[p].weak_control_block)]
  ELSE [ss |-> 0, base |-> 0]

\* the beacon left without its weak reference to the new control block
set_shared_secret_skipped(s, ss, c) == s

\* set_shared_secret_when_possible(ss), *this owning block c
set_shared_secret_when_possible(s, ss, c) ==
  IF ss # 0 THEN [s EXCEPT !.heap[ss].weak_control_block = c] ELSE s

\* the private constructor writing the flag only in a control block it creates
owned_pointer_keeps_flag(s, p, acq) ==
  LET g  == get_secret_when_possible(s, p)
      c  == IF g.base = 0 THEN FreeBlock(s) ELSE g.base
  IN  IF g.base = 0
      THEN [st |-> set_shared_secret_when_possible(
                     [s EXCEPT !.blocks[c] = control_block(p, acq, FALSE)],
                     g.ss, c),
            base |-> c]
      ELSE [st |-> s, base |-> c]

\* the private constructor writing acquired = false whatever it is given
owned_pointer_ignores_flag(s, p, acq) ==
  LET g  == get_secret_when_possible(s, p)
      c  == IF g.base = 0 THEN FreeBlock(s) ELSE g.base
      s1 == IF g.base = 0
            THEN set_shared_secret_when_possible(
                   [s EXCEPT !.blocks[c] = control_block(p, FALSE, FALSE)],
                   g.ss, c)
            ELSE s
  IN  [st |-> [s1 EXCEPT !.blocks[c].acquired = FALSE], base |-> c]

\* owned_pointer(element_type* const p, const bool acquired)
owned_pointer(s, p, acq) ==
  LET g  == get_secret_when_possible(s, p)
      c  == IF g.base = 0 THEN FreeBlock(s) ELSE g.base
      s1 == IF g.base = 0
            THEN set_shared_secret_when_possible(
                   [s EXCEPT !.blocks[c] = control_block(p, FALSE, FALSE)],
                   g.ss, c)
            ELSE s
  IN  [st |-> [s1 EXCEPT !.blocks[c].acquired = acq], base |-> c]

\* unique_ptr() that hands the address out without setting acquired
unique_ptr_forgets_flag(s, b) ==
  IF get_pointer(s, b) # 0
  THEN IF ~acquired(s, b)
       THEN [st |-> s, ret |-> get_pointer(s, b), thrown |-> "none"]
       ELSE [st |-> s, ret |-> 0, thrown |-> "unique_ptr_already_acquired"]
  ELSE [st |-> s, ret |-> 0, thrown |-> "none"]

\* unique_ptr() that sets std::get<_deleted> where it means _acquired
unique_ptr_wrong_index(s, b) ==
  IF get_pointer(s, b) # 0
  THEN IF ~acquired(s, b)
       THEN [st |-> [s EXCEPT !.blocks[b].deleted = TRUE],
             ret |-> get_pointer(s, b), thrown |-> "none"]
       ELSE [st |-> s, ret |-> 0, thrown |-> "unique_ptr_already_acquired"]
  ELSE [st |-> s, ret |-> 0, thrown |-> "none"]

\* unique_ptr() that throws after it has put the block back to not acquired
unique_ptr_throw_resets(s, b) ==
  IF get_pointer(s, b) # 0
  THEN IF ~acquired(s, b)
       THEN [st |-> [s EXCEPT !.blocks[b].acquired = TRUE],
             ret |-> get_pointer(s, b), thrown |-> "none"]
       ELSE [st |-> [s EXCEPT !.blocks[b].acquired = FALSE],
             ret |-> 0, thrown |-> "unique_ptr_already_acquired"]
  ELSE [st |-> s, ret |-> 0, thrown |-> "none"]

\* unique_ptr() that takes the pointer out of the control block
unique_ptr_moves_pointer(s, b) ==
  IF get_pointer(s, b) # 0
  THEN IF ~acquired(s, b)
       THEN [st |-> [s EXCEPT !.blocks[b].acquired = TRUE, !.blocks[b].ptr = 0],
             ret |-> get_pointer(s, b), thrown |-> "none"]
       ELSE [st |-> s, ret |-> 0, thrown |-> "unique_ptr_already_acquired"]
  ELSE [st |-> s, ret |-> 0, thrown |-> "none"]

\* unique_ptr() that tests acquired() before it tests the pointer
unique_ptr_tests_flag_first(s, b) ==
  IF acquired(s, b)
  THEN [st |-> s, ret |-> 0, thrown |-> "unique_ptr_already_acquired"]
  ELSE IF get_pointer(s, b) # 0
       THEN [st |-> [s EXCEPT !.blocks[b].acquired = TRUE],
             ret |-> get_pointer(s, b), thrown |-> "none"]
       ELSE [st |-> s, ret |-> 0, thrown |-> "none"]

\* unique_ptr_t unique_ptr() const
unique_ptr(s, b) ==
  IF get_pointer(s, b) # 0
  THEN IF ~acquired(s, b)
       THEN [st |-> [s EXCEPT !.blocks[b].acquired = TRUE],
             ret |-> get_pointer(s, b), thrown |-> "none"]
       ELSE [st |-> s, ret |-> 0, thrown |-> "unique_ptr_already_acquired"]
  ELSE [st |-> s, ret |-> 0, thrown |-> "none"]

\* get() without throw_if_is_destroyed_and_has_virtual_dtor()
get_unchecked(s, b) == [ret |-> get_pointer(s, b), thrown |-> "none"]

\* element_type* get() const, operator->, operator*
get(s, b) ==
  IF expired(s, b)
  THEN [ret |-> 0, thrown |-> "ptr_is_already_deleted"]
  ELSE [ret |-> get_pointer(s, b), thrown |-> "none"]

\* compare(const void* ptr) through get() instead of get_pointer()
compare_through_get(s, b, ptr) ==
  LET a == get(s, b).ret
  IN  IF a = ptr THEN 0 ELSE IF a < ptr THEN -1 ELSE 1

\* std::int8_t compare(const void* const ptr) const noexcept
compare(s, b, ptr) ==
  LET a == get_pointer(s, b)
  IN  IF a = ptr THEN 0 ELSE IF a < ptr THEN -1 ELSE 1

\* std::int8_t compare(const owned_pointer<T>& p) const noexcept
compare_owned(s, b1, b2) == compare(s, b1, get_pointer(s, b2))

\* operator==, !=, <, <=, >, >= of two owned_pointers with bases b1 and b2
op_eq(s, b1, b2) == compare_owned(s, b1, b2) = 0
op_ne(s, b1, b2) == ~op_eq(s, b1, b2)
op_lt(s, b1, b2) == compare_owned(s, b1, b2) < 0
op_le(s, b1, b2) == compare_owned(s, b1, b2) <= 0
op_gt(s, b1, b2) == compare_owned(s, b1, b2) > 0
op_ge(s, b1, b2) == compare_owned(s, b1, b2) >= 0

\* operator== and != of an owned_pointer and a raw pointer, in both orders
op_eq_ptr(s, b, ptr) == compare(s, b, ptr) = 0
op_eq_ptr_rev(s, ptr, b) == compare(s, b, ptr) = 0
op_ne_ptr(s, b, ptr) == compare(s, b, ptr) # 0
op_ne_ptr_rev(s, ptr, b) == compare(s, b, ptr) # 0

\* operator== and != of an owned_pointer and nullptr, in both orders
op_eq_null(s, b) == compare(s, b, 0) = 0
op_ne_null(s, b) == compare(s, b, 0) # 0
op_eq_null_rev(s, b) == op_eq_null(s, b)
op_ne_null_rev(s, b) == op_ne_null(s, b)

\* operator== and != of an owned_pointer and a std::unique_ptr that holds u,
\* in both orders: compare(p2.get())
op_eq_unique(s, b, u) == compare(s, b, u) = 0
op_eq_unique_rev(s, u, b) == compare(s, b, u) = 0
op_ne_unique(s, b, u) == compare(s, b, u) # 0
op_ne_unique_rev(s, u, b) == compare(s, b, u) # 0

\* ------------------------------------------------------------------------
\* The state machine
\* ------------------------------------------------------------------------

Init ==
  /\ blocks = [c \in CBs |-> NoBlock]
  /\ handles = [b \in Bases |-> 0]
  /\ uniques = [p \in Pointers |-> 0]
  /\ heap = [a \in Addrs |-> NoObject]
  /\ ub = FALSE
  /\ last = Void
  /\ calls = NoCalls

\* the step that takes the program to state s
Becomes(s) ==
  /\ blocks' = s.blocks
  /\ handles' = s.handles
  /\ uniques' = s.uniques
  /\ heap' = s.heap
  /\ ub' = s.ub
  /\ calls' = calls

\* room for one more owned_pointer / unique_ptr object
CanDeclareHandle == NumHandles(State) < MaxHandles
CanDeclareUnique == NumUniques(State) < MaxUnique

\* operator new: an address free for a new object
Allocatable(a) ==
  /\ ~heap[a].live
  /\ \A c \in CBs : blocks[c].ptr # a
  /\ uniques[a] = 0

\* owned_pointer() / owned_pointer(std::nullptr_t)
DefaultCtor ==
  /\ CanDeclareHandle
  /\ Becomes(Bind(State, 0))
  /\ last' = Void

\* make_owned<T>(args...): new ptr_type, wrapped in a unique_ptr<T>, converted
\* by owned_pointer(std::unique_ptr<T>); virt is has_virtual_destructor<T>
make_owned(a, virt) ==
  /\ CanDeclareHandle
  /\ Allocatable(a)
  /\ LET s0 == [State EXCEPT !.heap[a] = object(TRUE, virt, 0)]
         r  == owned_pointer(s0, a, FALSE)
     IN  Becomes(Bind(r.st, r.base))
  /\ last' = Void

\* std::unique_ptr<T> u(new T) or an empty unique_ptr (a = 0), made by the
\* caller: the object carries no beacon
NewUnique(a) ==
  /\ CanDeclareUnique
  /\ a # 0 => Allocatable(a)
  /\ Becomes([State EXCEPT
        !.heap = IF a = 0 THEN @ ELSE [@ EXCEPT ![a] = object(TRUE, FALSE, 0)],
        !.uniques[a] = @ + 1])
  /\ last' = Void

\* owned_pointer(std::unique_ptr<T> p) from a unique_ptr that holds p:
\* p.release() leaves it empty, the handle is not acquired
FromUnique(p) ==
  /\ CanDeclareHandle
  /\ uniques[p] > 0
  /\ LET s0 == [State EXCEPT !.uniques[p] = @ - 1, !.uniques[0] = @ + 1]
         r  == owned_pointer(s0, p, FALSE)
     IN  Becomes(Bind(r.st, r.base))
  /\ last' = Void

\* owned_pointer(link(u)) for a unique_ptr u that holds p: unique_ptr_link
\* captures u.get(), the handle is acquired
FromLink(p) ==
  /\ CanDeclareHandle
  /\ uniques[p] > 0
  /\ LET r == owned_pointer(State, p, TRUE)
     IN  Becomes(Bind(r.st, r.base))
  /\ last' = Void

\* owned_pointer(const owned_pointer<T>& p), p having base b
Copy(b) ==
  /\ CanDeclareHandle
  /\ handles[b] > 0
  /\ Becomes(Bind(State, b))
  /\ last' = Void

\* owned_pointer(owned_pointer<T>&& p), p having base b: p is left empty
Move(b) ==
  /\ CanDeclareHandle
  /\ handles[b] > 0
  /\ Becomes(Bind(State, 0))
  /\ last' = Void

\* operator=(const owned_pointer<T>& pointee) on a handle with base c,
\* pointee having base b
CopyAssign(c, b) ==
  /\ handles[c] > 0
  /\ handles[b] > 0
  /\ Becomes(assign(State, c, b))
  /\ last' = Void

\* operator=(owned_pointer<T>&& p) on a handle with base c, p being another
\* handle, with base b: p is left empty
MoveAssign(c, b) ==
  /\ handles[c] > 0
  /\ handles[b] > 0
  /\ c = b => handles[c] > 1
  /\ Becomes(assign([State EXCEPT !.handles[b] = @ - 1, !.handles[0] = @ + 1], c, b))
  /\ last' = Void

\* auto u = h.unique_ptr() on a handle h with base b: the returned
\* unique_ptr becomes u; when the call throws nothing is returned
Acquire(b) ==
  /\ handles[b] > 0
  /\ LET r == unique_ptr(State, b)
     IN  /\ r.thrown = "none" => CanDeclareUnique
         /\ IF r.thrown = "none"
            THEN Becomes([r.st EXCEPT !.uniques[r.ret] = @ + 1])
            ELSE Becomes(r.st)
         /\ last' = Result("unique_ptr", b, r.ret, r.thrown)

\* h.acquired() on a handle h with base b; true is recorded as 1
Acquired(b) ==
  /\ handles[b] > 0
  /\ last' = Result("acquired", b, IF acquired(State, b) THEN 1 ELSE 0, "none")
  /\ UNCHANGED prog

\* h.expired() on a handle h with base b; true is recorded as 1
Expired(b) ==
  /\ handles[b] > 0
  /\ last' = Result("expired", b, IF expired(State, b) THEN 1 ELSE 0, "none")
  /\ UNCHANGED prog

\* get() that drops the control block when it throws
Get_resets_on_throw(b) ==
  /\ handles[b] > 0
  /\ LET r == get(State, b)
     IN  /\ last' = Result("get", b, r.ret, r.thrown)
         /\ IF r.thrown = "none"
            THEN UNCHANGED prog
            ELSE Becomes(assign(State, b, 0))

\* h.get(), h.operator->(), *h on a handle h with base b
Get(b) ==
  /\ handles[b] > 0
  /\ LET r == get(State, b)
     IN  last' = Result("get", b, r.ret, r.thrown)
  /\ UNCHANGED prog

\* ~owned_pointer of a handle with base b
Destroy(b) ==
  /\ handles[b] > 0
  /\ Becomes(release(State, b))
  /\ last' = Void

\* u.reset(), also delete u.release(), on a unique_ptr that holds p: the
\* object is deleted, u is empty
ResetUnique(p) ==
  /\ uniques[p] > 0
  /\ Becomes([delete(State, p) EXCEPT !.uniques[p] = @ - 1, !.uniques[0] = @ + 1])
  /\ last' = Void

\* ~unique_ptr of a unique_ptr that holds p
DestroyUnique(p) ==
  /\ uniques[p] > 0
  /\ Becomes([delete(State, p) EXCEPT !.uniques[p] = @ - 1])
  /\ last' = Void

Next ==
  \/ DefaultCtor
  \/ \E a \in Addrs, virt \in BOOLEAN : make_owned(a, virt)
  \/ \E p \in Pointers : NewUnique(p)
  \/ \E p \in Pointers : FromUnique(p)
  \/ \E p \in Pointers : FromLink(p)
  \/ \E b \in Bases : Copy(b)
  \/ \E b \in Bases : Move(b)
  \/ \E c \in Bases, b \in Bases : CopyAssign(c, b)
  \/ \E c \in Bases, b \in Bases : MoveAssign(c, b)
  \/ \E b \in Bases : Acquire(b)
  \/ \E b \in Bases : Get(b)
  \/ \E b \in Bases : Acquired(b)
  \/ \E b \in Bases : Expired(b)
  \/ \E b \in Bases : Destroy(b)
  \/ \E p \in Pointers : ResetUnique(p)
  \/ \E p \in Pointers : DestroyUnique(p)

Spec == Init /\ [][Next]_vars

\* ------------------------------------------------------------------------
\* The comparisons, applied to handles in any condition
\* ------------------------------------------------------------------------

\* the addresses comparisons are applied to; no comparison dereferences one
ComparedPointers == 0..(MaxAddr + 1)

\* a control block with any address and its flags as the program leaves
\* them: not acquired, acquired, or acquired and deleted
ComparedBlocks ==
  {control_block(p, f[1], f[2]) :
     p \in ComparedPointers,
     f \in {<<FALSE, FALSE>>, <<TRUE, FALSE>>, <<TRUE, TRUE>>}}

\* one handle without control block and one handle on each control block;
\* a behaviour applies one comparison to them
CompareInit ==
  /\ blocks \in [CBs -> ComparedBlocks]
  /\ handles = [b \in Bases |-> 1]
  /\ uniques = [p \in Pointers |-> 0]
  /\ heap = [a \in Addrs |-> NoObject]
  /\ ub = FALSE
  /\ last = Void
  /\ calls = NoCalls

\* the outcome of a comparison of the handle with base b with address rhs
Compared(op, b, rhs, r) ==
  [op |-> op, cb |-> b, rhs |-> rhs, ret |-> r, thrown |-> "none"]

\* h1.compare(h2) as operator== ... operator>= of two handles call it
Compare(b1, b2) ==
  /\ last = Void
  /\ last' = Compared("compare", b1, get_pointer(State, b2),
                      compare_owned(State, b1, b2))
  /\ UNCHANGED prog

\* h.compare(ptr) as the operators with a raw pointer call it
CompareRaw(b, ptr) ==
  /\ last = Void
  /\ last' = Compared("compare_ptr", b, ptr, compare(State, b, ptr))
  /\ UNCHANGED prog

\* h.compare(u.get()) as the operators with a std::unique_ptr call it
CompareUnique(b, u) ==
  /\ last = Void
  /\ last' = Compared("compare_unique", b, u, compare(State, b, u))
  /\ UNCHANGED prog

CompareNext ==
  \/ \E b1 \in Bases : \E b2 \in Bases : Compare(b1, b2)
  \/ \E b \in Bases : \E ptr \in ComparedPointers : CompareRaw(b, ptr)
  \/ \E b \in Bases : \E u \in ComparedPointers : CompareUnique(b, u)

SpecCompare == CompareInit /\ [][CompareNext]_vars

\* ------------------------------------------------------------------------
\* unique_ptr() called by several threads at once
\* ------------------------------------------------------------------------

\* every thread holds a handle of the same control block, which points to
\* any address and is acquired or not; when it is acquired a unique_ptr
\* holds the address; no thread has started its call of unique_ptr()
ThreadsInit ==
  \E c \in CBs, p \in Pointers, virt \in BOOLEAN, before \in BOOLEAN :
    /\ blocks = [d \in CBs |-> IF d = c THEN control_block(p, before, FALSE)
                                ELSE NoBlock]
    /\ handles = [b \in Bases |-> IF b = c THEN MaxHandles ELSE 0]
    /\ uniques = [q \in Pointers |-> IF q = p /\ before THEN 1 ELSE 0]
    /\ heap = [a \in Addrs |-> IF a = p
                               THEN object(TRUE, virt, IF virt THEN c ELSE 0)
                               ELSE NoObject]
    /\ ub = FALSE
    /\ last = Void
    /\ calls = in_progress(c, before, [t \in Threads |-> call("201", 0)])

\* the step of thread t that leaves its call at pc with result ret
Proceeds(t, pc, ret) == calls' = [calls EXCEPT !.of[t] = call(pc, ret)]

\* the values a read of acquired can give thread t: the flag as it is, or,
\* the reads and writes of the threads being unordered, as it was when the
\* threads started
Readable == {acquired(State, calls.base), calls.before}

\* if(get_pointer()) ... return nullptr;
TestPointer(t) ==
  /\ calls.of[t].pc = "201"
  /\ IF get_pointer(State, calls.base) # 0
     THEN /\ Proceeds(t, "203", 0)
          /\ UNCHANGED last
     ELSE /\ Proceeds(t, "returned", 0)
          /\ last' = Result("unique_ptr", calls.base, 0, "none")
  /\ UNCHANGED <<blocks, handles, uniques, heap, ub>>

\* a test of the flag that sets it in the same step
TestFlag_and_set(t) ==
  /\ calls.of[t].pc = "203"
  /\ IF ~acquired(State, calls.base)
     THEN /\ Proceeds(t, "205", 0)
          /\ blocks' = [blocks EXCEPT ![calls.base].acquired = TRUE]
          /\ UNCHANGED <<handles, uniques, heap, ub, last>>
     ELSE /\ Proceeds(t, "thrown", 0)
          /\ last' = Result("unique_ptr", calls.base, 0,
                            "unique_ptr_already_acquired")
          /\ UNCHANGED <<blocks, handles, uniques, heap, ub>>

\* if(not acquired()) ... throw unique_ptr_already_acquired{};
TestFlag(t) ==
  /\ calls.of[t].pc = "203"
  /\ \E seen \in Readable :
       IF ~seen
       THEN /\ Proceeds(t, "205", 0)
            /\ UNCHANGED last
       ELSE /\ Proceeds(t, "thrown", 0)
            /\ last' = Result("unique_ptr", calls.base, 0,
                              "unique_ptr_already_acquired")
  /\ UNCHANGED <<blocks, handles, uniques, heap, ub>>

\* std::get<detail::_acquired>(base::operator*()) = true;
WriteFlag(t) ==
  /\ calls.of[t].pc = "205"
  /\ Proceeds(t, "206", 0)
  /\ blocks' = [blocks EXCEPT ![calls.base].acquired = TRUE]
  /\ UNCHANGED <<handles, uniques, heap, ub, last>>

\* return unique_ptr_t{get_pointer()};
Return(t) ==
  /\ calls.of[t].pc = "206"
  /\ LET p == get_pointer(State, calls.base)
     IN  /\ Proceeds(t, "returned", p)
         /\ uniques' = [uniques EXCEPT ![p] = @ + 1]
         /\ last' = Result("unique_ptr", calls.base, p, "none")
  /\ UNCHANGED <<blocks, handles, heap, ub>>

ThreadsNext ==
  \E t \in Threads :
    \/ TestPointer(t)
    \/ TestFlag(t)
    \/ WriteFlag(t)
    \/ Return(t)

SpecThreads == ThreadsInit /\ [][ThreadsNext]_vars

\* ------------------------------------------------------------------------
\* Vocabulary of the properties
\* ------------------------------------------------------------------------

\* the state after the step
StateNext ==
  [blocks |-> blocks', handles |-> handles', uniques |-> uniques',
   heap |-> heap', ub |-> ub']

\* control block c is allocated: some handle shares it
Lives(c) == use_count(State, c) > 0
LivesNext(c) == use_count(StateNext, c) > 0

\* the exceptions
AlreadyAcquired == "unique_ptr_already_acquired"
AlreadyDeleted == "ptr_is_already_deleted"

TypeOK ==
  /\ handles \in [Bases -> 0..MaxHandles]
  /\ uniques \in [Pointers -> 0..MaxUnique]
  /\ NumHandles(State) <= MaxHandles
  /\ NumUniques(State) <= MaxUnique
  /\ \A c \in CBs : ~Lives(c) => blocks[c] = NoBlock
  /\ \A a \in Addrs : heap[a].weak_control_block # 0 => Lives(heap[a].weak_control_block)

\* ------------------------------------------------------------------------
\* C1
\* ------------------------------------------------------------------------

\* C1: in every reachable state, on a control block with a non-null resource
\* and acquired false, unique_ptr() through a handle that shares it returns
\* the non-null resource address, and unique_ptr() right after it, through
\* the same handle or any other that shares the block, throws
\* unique_ptr_already_acquired.  The second conjunct says the same of two
\* consecutive calls the program makes.
C1_SecondAcquireFails ==
  /\ \A b \in CBs :
       LET r1 == unique_ptr(State, b)
           r2 == unique_ptr(r1.st, b)
       IN  (Lives(b) /\ get_pointer(State, b) # 0 /\ ~acquired(State, b))
           => /\ r1.thrown = "none"
              /\ r1.ret = get_pointer(State, b)
              /\ r2.thrown = AlreadyAcquired
  /\ (/\ last.op = "unique_ptr" /\ last.thrown = "none" /\ last.ret # 0
      /\ last'.op = "unique_ptr" /\ last'.cb = last.cb)
     => last'.thrown = AlreadyAcquired

C1_AcquireTwice == [][C1_SecondAcquireFails]_vars

\* the second of two calls has thrown, on a block two copies share, while
\* the unique_ptr the first call returned holds the resource
C1_Witness ==
  /\ last.op = "unique_ptr"
  /\ last.thrown = AlreadyAcquired
  /\ use_count(State, last.cb) >= 2
  /\ blocks[last.cb].ptr # 0
  /\ uniques[blocks[last.cb].ptr] > 0

\* ------------------------------------------------------------------------
\* C2
\* ------------------------------------------------------------------------

\* the step builds a new handle on the live block c from the unique_ptr that
\* holds c's resource and leaves that unique_ptr empty (re-wrap)
Rewraps(c) ==
  LET a == blocks[c].ptr
  IN  /\ a # 0
      /\ uniques[a] > 0
      /\ uniques'[a] = uniques[a] - 1
      /\ uniques'[0] = uniques[0] + 1
      /\ heap[a].live
      /\ heap'[a].live
      /\ handles'[c] = handles[c] + 1

\* C2 as claimed: once acquired is true on a control block it is never false
\* again while the block lives, whatever the operation.
C2_AcquiredMonotone ==
  [][\A c \in CBs :
       (Lives(c) /\ blocks[c].acquired /\ LivesNext(c)) => blocks'[c].acquired]_vars

\* C2 amended: acquired goes from true to false on a living control block only
\* in a re-wrap, the construction of a shared handle from the unique_ptr that
\* holds the block's resource; every other operation keeps it true.
C2_AcquiredResetOnlyByRewrap ==
  [][\A c \in CBs :
       (Lives(c) /\ blocks[c].acquired /\ LivesNext(c) /\ ~blocks'[c].acquired)
       => Rewraps(c)]_vars

\* a block that is still acquired after its resource has been destroyed
C2_Witness ==
  \E c \in CBs : /\ Lives(c)
                 /\ blocks[c].acquired
                 /\ blocks[c].ptr # 0
                 /\ ~heap[blocks[c].ptr].live

\* ------------------------------------------------------------------------
\* C3
\* ------------------------------------------------------------------------

\* a successful unique_ptr() leaves the handles of its block, however many
\* copies there are, reporting acquired()
C3_AfterAcquire ==
  (last'.op = "unique_ptr" /\ last'.thrown = "none" /\ last'.ret # 0)
  => (LivesNext(last'.cb) /\ acquired(StateNext, last'.cb))

\* the handles that share block c after the step - those that did before
\* and those the step attached to it - report acquired()
C3_Stays(c) == LivesNext(c) => acquired(StateNext, c)

\* C3 as claimed: after unique_ptr() succeeds, all handles sharing the block,
\* copies made before and after, report acquired() in every later state.
C3_AllCopiesAcquiredForever ==
  [][/\ C3_AfterAcquire
     /\ \A c \in CBs : (Lives(c) /\ acquired(State, c)) => C3_Stays(c)]_vars

\* C3 amended: after unique_ptr() succeeds, all handles sharing the block,
\* copies made before and after, report acquired() until a shared handle is
\* constructed from the unique_ptr that holds the resource (re-wrap), which
\* writes acquired = false on the block they share.
C3_AllCopiesAcquiredUntilRewrap ==
  [][/\ C3_AfterAcquire
     /\ \A c \in CBs :
          (Lives(c) /\ acquired(State, c)) => (C3_Stays(c) \/ Rewraps(c))]_vars

\* unique_ptr() has just succeeded on a block that two copies share
C3_Witness ==
  /\ last.op = "unique_ptr"
  /\ last.thrown = "none"
  /\ last.ret # 0
  /\ use_count(State, last.cb) >= 2
  /\ acquired(State, last.cb)

\* ------------------------------------------------------------------------
\* C4
\* ------------------------------------------------------------------------

\* C4: when a step destroys a beacon-bearing resource through the unique_ptr
\* that holds it, every shared handle on that address is expired() after the
\* step and its get() throws ptr_is_already_deleted; a handle the program
\* attaches afterwards to a block that is marked deleted is expired too.
C4_DestroyedThroughUnique ==
  /\ \A a \in Addrs :
       (/\ uniques[a] > 0 /\ uniques'[a] < uniques[a]
        /\ heap[a].live /\ heap[a].secret /\ ~heap'[a].live)
       => \A c \in CBs :
            (LivesNext(c) /\ get_pointer(StateNext, c) = a)
            => /\ expired(StateNext, c)
               /\ get(StateNext, c).thrown = AlreadyDeleted
  /\ \A c \in CBs :
       (Lives(c) /\ blocks[c].deleted /\ handles'[c] > handles[c])
       => /\ expired(StateNext, c)
          /\ get(StateNext, c).thrown = AlreadyDeleted

C4_SurvivorsSeeDeletion == [][C4_DestroyedThroughUnique]_vars

\* two copies survive the destruction of their resource and are expired
C4_Witness ==
  \E c \in CBs : /\ use_count(State, c) >= 2
                 /\ blocks[c].deleted
                 /\ blocks[c].ptr # 0
                 /\ ~heap[blocks[c].ptr].live
                 /\ uniques[blocks[c].ptr] = 0

\* ------------------------------------------------------------------------
\* C5
\* ------------------------------------------------------------------------

\* C5: deleted is terminal - a living control block that is marked deleted
\* is still marked after every step - and every get() through a handle of a
\* block marked deleted throws ptr_is_already_deleted, in every state.
C5_DeletedTerminal ==
  [][/\ \A c \in CBs :
          (Lives(c) /\ blocks[c].deleted /\ LivesNext(c)) => blocks'[c].deleted
     /\ \A c \in CBs :
          (Lives(c) /\ expired(State, c)) => get(State, c).thrown = AlreadyDeleted
     /\ (last'.op = "get" /\ expired(State, last'.cb))
        => last'.thrown = AlreadyDeleted]_vars

\* get() has just thrown on a handle of a block that is marked deleted
C5_Witness ==
  /\ last.op = "get"
  /\ last.thrown = AlreadyDeleted
  /\ expired(State, last.cb)

\* ------------------------------------------------------------------------
\* C6
\* ------------------------------------------------------------------------

\* C6: no object is deleted twice (delete never reaches an address that holds
\* no object), and no object is leaked: a live object is pointed to by a
\* shared handle or held by a unique_ptr, so once all of them are destroyed
\* no object is left.
C6_DestroyedExactlyOnce ==
  /\ ~ub
  /\ \A a \in Addrs :
       heap[a].live => \/ \E c \in CBs : Lives(c) /\ blocks[c].ptr = a
                       \/ uniques[a] > 0
  /\ (NumHandles(State) = 0 /\ NumUniques(State) = 0)
     => \A a \in Addrs : ~heap[a].live

\* a resource without beacon was re-wrapped: two control blocks point to it,
\* the old one acquired, the new one responsible for the destruction
C6_Witness ==
  \E c \in CBs : \E d \in CBs :
    /\ c # d /\ Lives(c) /\ Lives(d)
    /\ blocks[c].ptr # 0 /\ blocks[c].ptr = blocks[d].ptr
    /\ blocks[c].acquired /\ ~blocks[d].acquired
    /\ heap[blocks[c].ptr].live

\* ------------------------------------------------------------------------
\* C7
\* ------------------------------------------------------------------------

\* C7: while a living control block with a resource is not acquired, the
\* resource is alive, the block is not marked deleted and get() returns the
\* address; a step after which the block is still shared leaves the resource
\* alive and the block unmarked, and the step that takes the last handle away
\* destroys the resource.
C7_Unacquired(c) ==
  LET a == blocks[c].ptr
  IN  /\ heap[a].live
      /\ ~blocks[c].deleted
      /\ get(State, c) = [ret |-> a, thrown |-> "none"]
      /\ LivesNext(c) => (heap'[a].live /\ ~blocks'[c].deleted)
      /\ ~LivesNext(c) => ~heap'[a].live

C7_DestroyedWithLastHandle ==
  [][\A c \in CBs :
       (Lives(c) /\ ~blocks[c].acquired /\ blocks[c].ptr # 0) => C7_Unacquired(c)]_vars

\* the one remaining handle of an unacquired block has been dereferenced
C7_Witness ==
  /\ last.op = "get"
  /\ last.thrown = "none"
  /\ last.ret # 0
  /\ use_count(State, last.cb) = 1
  /\ ~blocks[last.cb].acquired
  /\ NumHandles(State) = 1

\* ------------------------------------------------------------------------
\* C8
\* ------------------------------------------------------------------------

\* C8: a step that takes a handle away from an acquired control block, the
\* last one included, leaves every object and every unique_ptr as it was; and
\* a unique_ptr that is not empty holds a live object in every state.
C8_Step ==
  /\ \A c \in CBs :
       (Lives(c) /\ blocks[c].acquired /\ handles'[c] < handles[c])
       => /\ \A a \in Addrs : /\ heap'[a].live = heap[a].live
                              /\ heap'[a].secret = heap[a].secret
          /\ uniques' = uniques
  /\ \A a \in Addrs : uniques[a] > 0 => heap[a].live

C8_SharedHandlesLeaveAcquiredResource == [][C8_Step]_vars

\* the unique_ptr holds a live beacon-bearing object after every shared
\* handle of it is gone
C8_Witness ==
  \E a \in Addrs : /\ uniques[a] > 0
                   /\ heap[a].live
                   /\ heap[a].secret
                   /\ \A c \in CBs : blocks[c].ptr # a

\* ------------------------------------------------------------------------
\* C9
\* ------------------------------------------------------------------------

\* C9: a call of unique_ptr() that throws unique_ptr_already_acquired changes
\* nothing: control blocks, handles, unique_ptrs and objects are as before
\* and no unique_ptr is produced; in every state, the function on any handle
\* either does not throw or returns the state it was given.
C9_FailedAcquireChangesNothing ==
  [][/\ (last'.op = "unique_ptr" /\ last'.thrown = AlreadyAcquired)
        => (UNCHANGED prog /\ last'.ret = 0)
     /\ \A b \in Bases :
          LET r == unique_ptr(State, b)
          IN  (handles[b] > 0 /\ r.thrown = AlreadyAcquired)
              => (r.st = State /\ r.ret = 0)]_vars

\* unique_ptr() has just thrown on the only handle of an acquired block
C9_Witness ==
  /\ last.op = "unique_ptr"
  /\ last.thrown = AlreadyAcquired
  /\ use_count(State, last.cb) = 1
  /\ blocks[last.cb].acquired

\* ------------------------------------------------------------------------
\* C10
\* ------------------------------------------------------------------------

\* C10: on a handle whose resource address is null - no control block, or a
\* control block with a null pointer, acquired or not - unique_ptr() returns
\* an empty unique_ptr, does not throw and changes nothing, get() returns
\* null without throwing and expired() is false.
C10_Null ==
  /\ \A b \in Bases :
       (handles[b] > 0 /\ get_pointer(State, b) = 0)
       => /\ unique_ptr(State, b) = [st |-> State, ret |-> 0, thrown |-> "none"]
          /\ get(State, b) = [ret |-> 0, thrown |-> "none"]
          /\ ~expired(State, b)
  /\ (last'.op = "unique_ptr" /\ get_pointer(State, last'.cb) = 0)
     => /\ last'.thrown = "none"
        /\ last'.ret = 0
        /\ UNCHANGED <<blocks, handles, heap, ub>>
        /\ \A a \in Addrs : uniques'[a] = uniques[a]

C10_NullHandleAcquire == [][C10_Null]_vars

\* unique_ptr() has just returned an empty unique_ptr on a handle built from
\* the link of an empty unique_ptr, whose control block is acquired
C10_Witness ==
  /\ last.op = "unique_ptr"
  /\ last.thrown = "none"
  /\ last.ret = 0
  /\ last.cb # 0
  /\ blocks[last.cb].ptr = 0
  /\ blocks[last.cb].acquired
  /\ uniques[0] >= 2

\* ------------------------------------------------------------------------
\* C11
\* ------------------------------------------------------------------------

\* C11: a shared handle built from the link of a unique_ptr reports
\* acquired() at once, with no call of unique_ptr(), and has the address the
\* unique_ptr holds; the unique_ptr holds the same address afterwards and the
\* object is as alive as before; destroying the new handle and a copy of it
\* destroys no object, takes nothing from any unique_ptr and marks no other
\* control block deleted.
C11_LinkNeverOwns ==
  \A p \in Pointers :
    (uniques[p] > 0 /\ CanDeclareHandle)
    => LET r  == owned_pointer(State, p, TRUE)
           s1 == Bind(r.st, r.base)
           s2 == release(release(Bind(s1, r.base), r.base), r.base)
       IN  /\ acquired(s1, r.base)
           /\ get_pointer(s1, r.base) = p
           /\ s1.uniques = uniques
           /\ s2.uniques = uniques
           /\ ~s2.ub
           /\ \A a \in Addrs : /\ s1.heap[a].live = heap[a].live
                               /\ s2.heap[a].live = heap[a].live
           /\ \A c \in CBs :
                (Lives(c) /\ use_count(s2, c) > 0)
                => s2.blocks[c].deleted = blocks[c].deleted

\* two handles built from the link of one unique_ptr, which still holds its
\* live object: two acquired control blocks on the address
C11_Witness ==
  \E c \in CBs : \E d \in CBs :
    /\ c # d /\ Lives(c) /\ Lives(d)
    /\ blocks[c].ptr # 0 /\ blocks[c].ptr = blocks[d].ptr
    /\ blocks[c].acquired /\ blocks[d].acquired
    /\ uniques[blocks[c].ptr] > 0
    /\ heap[blocks[c].ptr].live

\* ------------------------------------------------------------------------
\* C12
\* ------------------------------------------------------------------------

\* the step moves the unique_ptr that holds the live object at p into the
\* constructor of a shared handle: the unique_ptr is empty afterwards and the
\* object is still alive
C12_Adopts(p) ==
  /\ uniques[p] > 0
  /\ uniques'[p] = uniques[p] - 1
  /\ uniques'[0] = uniques[0] + 1
  /\ heap[p].live
  /\ heap'[p].live

\* C12: the construction of a shared handle from a unique_ptr that is not
\* empty leaves the unique_ptr empty and yields one more handle on a control
\* block that has the unique_ptr's address, is not acquired and is not marked
\* deleted - whether the resource was untracked (a new control block) or is
\* re-wrapped while its shared handles live (their control block).
C12_Step ==
  \A p \in Addrs :
    C12_Adopts(p)
    => /\ \E c \in CBs : /\ handles'[c] = handles[c] + 1
                         /\ get_pointer(StateNext, c) = p
                         /\ ~acquired(StateNext, c)
                         /\ ~expired(StateNext, c)
                         /\ get(StateNext, c).ret = p
                         /\ (Lives(c) <=> lock(State, heap[p].weak_control_block) = c)
       /\ LET r == owned_pointer([State EXCEPT !.uniques[p] = @ - 1,
                                                !.uniques[0] = @ + 1], p, FALSE)
          IN  /\ get_pointer(r.st, r.base) = p
              /\ ~acquired(r.st, r.base)
              /\ ~expired(r.st, r.base)

C12_FromUniqueTakesOwnership == [][C12_Step]_vars

\* a resource was acquired and its unique_ptr moved into a new shared handle
\* while the original handle lives: the new control block on the address is
\* not acquired and not marked deleted, no unique_ptr holds the address any
\* more and the emptied unique_ptr is left behind
C12_Witness ==
  \E c \in CBs : \E d \in CBs :
    /\ c # d /\ Lives(c) /\ Lives(d)
    /\ blocks[c].ptr # 0 /\ blocks[d].ptr = blocks[c].ptr
    /\ blocks[c].acquired
    /\ ~blocks[d].acquired /\ ~blocks[d].deleted
    /\ heap[blocks[d].ptr].live
    /\ uniques[blocks[d].ptr] = 0
    /\ uniques[0] >= 1

\* ------------------------------------------------------------------------
\* C13
\* ------------------------------------------------------------------------

\* C13 as claimed: any two living control blocks with the same non-null
\* address are one control block, however the handles were constructed.
C13_OneBlockPerAddress ==
  \A c \in CBs : \A d \in CBs :
    (Lives(c) /\ Lives(d) /\ blocks[c].ptr # 0 /\ blocks[c].ptr = blocks[d].ptr)
    => c = d

\* C13 amended: the handles that refer to a live resource carrying a
\* destruction beacon share one control block, however constructed
\* (make_owned, from the unique_ptr, from its link), and the beacon points to
\* that block; on a resource without beacon every construction from a
\* unique_ptr or a link makes a control block of its own.
C13_OneBlockPerBeaconResource ==
  /\ \A c \in CBs : \A d \in CBs :
       (/\ Lives(c) /\ Lives(d)
        /\ blocks[c].ptr # 0 /\ blocks[c].ptr = blocks[d].ptr
        /\ heap[blocks[c].ptr].live /\ heap[blocks[c].ptr].secret)
       => /\ c = d
          /\ heap[blocks[c].ptr].weak_control_block = c
  /\ \A p \in Addrs :
       (/\ uniques[p] > 0 /\ CanDeclareHandle /\ ~heap[p].secret
        /\ \E c \in CBs : Lives(c) /\ blocks[c].ptr = p)
       => /\ ~Lives(owned_pointer(State, p, TRUE).base)
          /\ ~Lives(owned_pointer(State, p, FALSE).base)

\* a beacon-bearing resource is held by a unique_ptr while two handles
\* share its one acquired control block
C13_Witness ==
  \E c \in CBs : /\ use_count(State, c) >= 2
                 /\ blocks[c].ptr # 0
                 /\ blocks[c].acquired
                 /\ heap[blocks[c].ptr].live
                 /\ heap[blocks[c].ptr].secret
                 /\ heap[blocks[c].ptr].weak_control_block = c
                 /\ uniques[blocks[c].ptr] > 0

\* ------------------------------------------------------------------------
\* C14
\* ------------------------------------------------------------------------

\* C14: a handle whose resource is alive - still owned by the control block,
\* held by a unique_ptr after unique_ptr(), or wrapped again from that
\* unique_ptr - is not expired() and its get() returns the address without
\* throwing, in every state; and a step sets deleted on a living control
\* block only when the step destroys the object the block points to.
C14_Step ==
  /\ \A c \in CBs :
       (Lives(c) /\ blocks[c].ptr # 0 /\ heap[blocks[c].ptr].live)
       => /\ ~expired(State, c)
          /\ get(State, c).thrown = "none"
          /\ get(State, c).ret = blocks[c].ptr
  /\ \A c \in CBs :
       (Lives(c) /\ ~blocks[c].deleted /\ LivesNext(c) /\ blocks'[c].deleted)
       => /\ heap[blocks[c].ptr].live
          /\ ~heap'[blocks[c].ptr].live
  /\ (last'.op = "get" /\ get_pointer(State, last'.cb) # 0
      /\ heap[get_pointer(State, last'.cb)].live)
     => last'.thrown = "none"

C14_NeverSpuriouslyDeleted == [][C14_Step]_vars

\* get() has just returned the address through a handle of an acquired
\* control block whose beacon-bearing resource a unique_ptr holds
C14_Witness ==
  /\ last.op = "get"
  /\ last.thrown = "none"
  /\ last.ret # 0
  /\ blocks[last.cb].acquired
  /\ heap[last.ret].live
  /\ heap[last.ret].secret
  /\ uniques[last.ret] > 0

\* ------------------------------------------------------------------------
\* C15
\* ------------------------------------------------------------------------

\* the comparisons of the handles with bases b1 and b2 order them as their
\* addresses are ordered: exactly one of <, ==, > holds, == holds exactly
\* when the addresses are equal, and the other operators follow
C15_Trichotomy(b1, b2) ==
  LET s  == State
      a1 == get_pointer(s, b1)
      a2 == get_pointer(s, b2)
  IN  /\ \/ (op_lt(s, b1, b2) /\ ~op_eq(s, b1, b2) /\ ~op_gt(s, b1, b2))
         \/ (~op_lt(s, b1, b2) /\ op_eq(s, b1, b2) /\ ~op_gt(s, b1, b2))
         \/ (~op_lt(s, b1, b2) /\ ~op_eq(s, b1, b2) /\ op_gt(s, b1, b2))
      /\ op_eq(s, b1, b2) <=> (a1 = a2)
      /\ op_lt(s, b1, b2) <=> (a1 < a2)
      /\ op_gt(s, b1, b2) <=> op_lt(s, b2, b1)
      /\ op_ne(s, b1, b2) <=> ~op_eq(s, b1, b2)
      /\ op_le(s, b1, b2) <=> (op_lt(s, b1, b2) \/ op_eq(s, b1, b2))
      /\ op_ge(s, b1, b2) <=> (op_gt(s, b1, b2) \/ op_eq(s, b1, b2))
      /\ op_eq(s, b1, b2) <=> op_eq_ptr(s, b1, a2)
      /\ op_eq(s, b1, b2) <=> op_eq_unique(s, b1, a2)

\* comparing the handle with base b with a raw pointer, with nullptr or with
\* a unique_ptr that holds the pointer compares the addresses, in both orders
C15_WithPointer(b, p) ==
  LET s == State
      a == get_pointer(s, b)
  IN  /\ op_eq_ptr(s, b, p) <=> (a = p)
      /\ op_eq_ptr_rev(s, p, b) <=> (a = p)
      /\ op_eq_unique(s, b, p) <=> (a = p)
      /\ op_eq_unique_rev(s, p, b) <=> (a = p)
      /\ op_ne_ptr(s, b, p) <=> (a # p)
      /\ op_ne_ptr_rev(s, p, b) <=> (a # p)
      /\ op_ne_unique(s, b, p) <=> (a # p)
      /\ op_ne_unique_rev(s, p, b) <=> (a # p)
      /\ op_eq_null(s, b) <=> (a = 0)
      /\ op_eq_null_rev(s, b) <=> (a = 0)
      /\ op_ne_null(s, b) <=> (a # 0)
      /\ op_ne_null_rev(s, b) <=> (a # 0)

\* the handles as they are, with every control block neither acquired nor
\* deleted
C15_Unflagged ==
  [State EXCEPT
     !.blocks = [c \in CBs |-> control_block(blocks[c].ptr, FALSE, FALSE)]]

\* the flags of the control blocks have no part in the result: it is the
\* result the same addresses give with no flag set
C15_FlagsIgnored(b1, b2) ==
  /\ compare_owned(C15_Unflagged, b1, b2) = compare_owned(State, b1, b2)
  /\ op_eq(C15_Unflagged, b1, b2) <=> op_eq(State, b1, b2)
  /\ op_lt(C15_Unflagged, b1, b2) <=> op_lt(State, b1, b2)

\* C15: the comparisons of handles depend on the addresses alone and order
\* the handles strictly and totally: exactly one of a < b, a == b, a > b;
\* a == b exactly when the addresses are equal, two null handles included;
\* < is transitive; a raw pointer or a unique_ptr in place of a handle gives
\* the same equality; acquired and deleted do not matter, and a comparison
\* returns its result on a handle whose get() throws ptr_is_already_deleted.
C15_AddressOrder ==
  /\ \A b1 \in Bases : \A b2 \in Bases :
       /\ C15_Trichotomy(b1, b2)
       /\ C15_FlagsIgnored(b1, b2)
       /\ \A b3 \in Bases :
            (op_lt(State, b1, b2) /\ op_lt(State, b2, b3)) => op_lt(State, b1, b3)
  /\ \A b \in Bases : \A p \in ComparedPointers : C15_WithPointer(b, p)
  /\ (last.op \in {"compare", "compare_ptr", "compare_unique"})
     => /\ last.thrown = "none"
        /\ last.ret = compare(State, last.cb, last.rhs)
        /\ last.ret = (IF get_pointer(State, last.cb) = last.rhs THEN 0
                       ELSE IF get_pointer(State, last.cb) < last.rhs THEN -1
                       ELSE 1)

\* a handle whose get() throws has just compared less than a handle on a
\* control block that is not acquired, and a third handle is ordered after
\* both
C15_Witness ==
  /\ last.op = "compare"
  /\ last.ret = -1
  /\ get(State, last.cb).thrown = AlreadyDeleted
  /\ \E b2 \in CBs : /\ get_pointer(State, b2) = last.rhs
                     /\ ~acquired(State, b2)
  /\ op_gt(State, last.cb, 0)

\* ------------------------------------------------------------------------
\* C16
\* ------------------------------------------------------------------------

\* unique_ptr() on any handle, when it returns a unique_ptr that is not
\* empty, returns the address get() returns before the call and after it and
\* leaves the handle's address as it was; and in the state a call has left,
\* the handle and a unique_ptr hold the address the call returned
C16_AcquireStep ==
  /\ \A b \in Bases :
       LET q == unique_ptr(State, b)
       IN  (handles[b] > 0 /\ q.thrown = "none" /\ q.ret # 0)
           => /\ get(State, b) = [ret |-> q.ret, thrown |-> "none"]
              /\ get(q.st, b) = [ret |-> q.ret, thrown |-> "none"]
              /\ get_pointer(q.st, b) = get_pointer(State, b)
  /\ (last.op = "unique_ptr" /\ last.thrown = "none" /\ last.ret # 0)
     => /\ get(State, last.cb) = [ret |-> last.ret, thrown |-> "none"]
        /\ uniques[last.ret] > 0

\* make_owned followed at once by unique_ptr(): the unique_ptr holds the
\* address of the new object, which is the address of the handle before and
\* after the call
C16_MakeThenAcquire ==
  \A a \in Addrs : \A virt \in BOOLEAN :
    (CanDeclareHandle /\ Allocatable(a))
    => LET r  == owned_pointer([State EXCEPT !.heap[a] = object(TRUE, virt, 0)],
                               a, FALSE)
           s1 == Bind(r.st, r.base)
           q  == unique_ptr(s1, r.base)
       IN  /\ q.thrown = "none"
           /\ q.ret = a
           /\ get(s1, r.base).ret = a
           /\ get(q.st, r.base) = [ret |-> a, thrown |-> "none"]

\* a shared handle built from a unique_ptr that is not empty, followed at
\* once by unique_ptr(): the unique_ptr returned holds the address the first
\* one held
C16_AdoptThenAcquire ==
  \A p \in Addrs :
    (CanDeclareHandle /\ uniques[p] > 0)
    => LET r  == owned_pointer([State EXCEPT !.uniques[p] = @ - 1,
                                             !.uniques[0] = @ + 1], p, FALSE)
           s1 == Bind(r.st, r.base)
           q  == unique_ptr(s1, r.base)
       IN  /\ q.thrown = "none"
           /\ q.ret = p
           /\ get(s1, r.base).ret = p
           /\ get(q.st, r.base) = [ret |-> p, thrown |-> "none"]

\* C16: round trip - a handle made by make_owned, or built from a unique_ptr,
\* and acquired at once gives a unique_ptr holding exactly the address get()
\* returns on the handle, and unique_ptr() leaves the handle's address as it
\* was.
C16_RoundTrip ==
  C16_AcquireStep /\ C16_MakeThenAcquire /\ C16_AdoptThenAcquire

\* unique_ptr() has just returned the address of an object without beacon
\* through the only handle there is, and get() returns the same address
C16_Witness ==
  /\ last.op = "unique_ptr"
  /\ last.thrown = "none"
  /\ last.ret # 0
  /\ ~heap[last.ret].secret
  /\ NumHandles(State) = 1
  /\ uniques[last.ret] = 1
  /\ get(State, last.cb).ret = last.ret

\* ------------------------------------------------------------------------
\* C17
\* ------------------------------------------------------------------------

\* C17: acquired() and expired() return a truth value without throwing and
\* change nothing, on a handle in any condition - without control block, not
\* acquired, acquired, deleted; a get() that throws ptr_is_already_deleted
\* changes nothing either, and after it acquired() and expired() answer as
\* they did before.
C17_Step ==
  /\ (last'.op = "acquired")
     => /\ UNCHANGED prog
        /\ last'.thrown = "none"
        /\ last'.ret = (IF last'.cb # 0 /\ blocks[last'.cb].acquired THEN 1 ELSE 0)
  /\ (last'.op = "expired")
     => /\ UNCHANGED prog
        /\ last'.thrown = "none"
        /\ last'.ret = (IF last'.cb # 0 /\ blocks[last'.cb].deleted THEN 1 ELSE 0)
  /\ (last'.op = "get" /\ last'.thrown = AlreadyDeleted)
     => /\ UNCHANGED prog
        /\ LivesNext(last'.cb)
        /\ acquired(StateNext, last'.cb) = acquired(State, last'.cb)
        /\ expired(StateNext, last'.cb)
  /\ \A b \in Bases :
       handles[b] > 0 => /\ acquired(State, b) \in BOOLEAN
                         /\ expired(State, b) \in BOOLEAN

C17_QueriesArePure == [][C17_Step]_vars

\* acquired() has just answered true on a handle whose get() throws
C17_Witness ==
  /\ last.op = "acquired"
  /\ last.ret = 1
  /\ expired(State, last.cb)
  /\ get(State, last.cb).thrown = AlreadyDeleted

\* ------------------------------------------------------------------------
\* C18
\* ------------------------------------------------------------------------

\* C18: when every shared handle of a beacon-bearing resource is gone while
\* a unique_ptr holds the resource, so that the control block is gone too, a
\* shared handle built from that unique_ptr gets a new control block that is
\* not acquired and not marked deleted, and the beacon points to it; then
\* unique_ptr() on the new handle succeeds, and destroying the unique_ptr it
\* returns leaves the handle expired() with a get() that throws
\* ptr_is_already_deleted.
C18_StartsFresh ==
  \A p \in Addrs :
    (/\ uniques[p] > 0 /\ heap[p].live /\ heap[p].secret
     /\ lock(State, heap[p].weak_control_block) = 0
     /\ CanDeclareHandle)
    => LET r  == owned_pointer([State EXCEPT !.uniques[p] = @ - 1,
                                             !.uniques[0] = @ + 1], p, FALSE)
           s1 == Bind(r.st, r.base)
           q  == unique_ptr(s1, r.base)
           s2 == delete(q.st, q.ret)
       IN  /\ ~Lives(r.base)
           /\ \A c \in CBs : Lives(c) => blocks[c].ptr # p
           /\ use_count(s1, r.base) = 1
           /\ s1.blocks[r.base] = control_block(p, FALSE, FALSE)
           /\ s1.heap[p].weak_control_block = r.base
           /\ s1.uniques[p] = uniques[p] - 1
           /\ q.thrown = "none"
           /\ q.ret = p
           /\ acquired(q.st, r.base)
           /\ ~s2.heap[p].live
           /\ ~s2.ub
           /\ expired(s2, r.base)
           /\ get(s2, r.base).thrown = AlreadyDeleted

\* no shared handle is left, and a unique_ptr holds a live beacon-bearing
\* resource whose beacon points to no control block any more
C18_Witness ==
  \E p \in Addrs : /\ uniques[p] = 1
                   /\ heap[p].live
                   /\ heap[p].secret
                   /\ heap[p].weak_control_block = 0
                   /\ NumHandles(State) = 0

\* ------------------------------------------------------------------------
\* C19
\* ------------------------------------------------------------------------

\* the threads whose call has returned a unique_ptr that is not empty
C19_Owners == {t \in Threads : calls.of[t].pc = "returned" /\ calls.of[t].ret # 0}

\* the threads whose call has written acquired = true
C19_Writers == {t \in Threads : calls.of[t].pc = "206"} \cup C19_Owners

\* C19: unique_ptr() is not atomic. Its test of acquired does not set the
\* flag - the flag is set only once some call has gone past its write - so
\* with no serialization every thread that tests before the first write
\* passes, and each call that passes returns a unique_ptr of its own to the
\* address of the one control block: as many owners as calls that passed.
\* Only a flag that was set before the threads started makes every call
\* throw.
C19_AcquireNotAtomic ==
  LET b == calls.base
      p == get_pointer(State, b)
  IN  /\ acquired(State, b) => (calls.before \/ C19_Writers # {})
      /\ \A t \in C19_Owners : /\ acquired(State, b)
                               /\ calls.of[t].ret = p
      /\ p # 0 => uniques[p] = (IF calls.before THEN 1 ELSE 0)
                               + Cardinality(C19_Owners)
      /\ calls.before
         => \A t \in Threads :
              calls.of[t].pc \in {"201", "203", "thrown", "returned"}
              /\ calls.of[t].ret = 0

\* two threads have returned from unique_ptr() on handles of one control
\* block that was not acquired, each with a unique_ptr to the same address
C19_Witness ==
  /\ ~calls.before
  /\ \E t \in Threads : \E u \in Threads :
       /\ t # u
       /\ calls.of[t].pc = "returned" /\ calls.of[u].pc = "returned"
       /\ calls.of[t].ret # 0
       /\ calls.of[t].ret = calls.of[u].ret
       /\ uniques[calls.of[t].ret] >= 2

\* ------------------------------------------------------------------------
\* C20
\* ------------------------------------------------------------------------

\* C20: in the single-threaded program a living control block that is
\* marked deleted is acquired; so on a handle whose resource has been
\* destroyed - marked deleted or not - unique_ptr() throws
\* unique_ptr_already_acquired and changes nothing, although it never reads
\* deleted; and no call has returned the address of a destroyed resource.
C20_DeletedImpliesAcquired ==
  /\ \A c \in CBs :
       (Lives(c) /\ blocks[c].deleted)
       => /\ blocks[c].acquired
          /\ blocks[c].ptr # 0
          /\ ~heap[blocks[c].ptr].live
  /\ \A c \in CBs :
       (Lives(c) /\ blocks[c].ptr # 0
        /\ (blocks[c].deleted \/ ~heap[blocks[c].ptr].live))
       => unique_ptr(State, c) = [st |-> State, ret |-> 0, thrown |-> AlreadyAcquired]
  /\ (last.op = "unique_ptr" /\ last.thrown = "none" /\ last.ret # 0)
     => heap[last.ret].live

\* unique_ptr() has just thrown on a handle whose get() throws
\* ptr_is_already_deleted: the resource was destroyed through the unique_ptr
C20_Witness ==
  /\ last.op = "unique_ptr"
  /\ last.thrown = AlreadyAcquired
  /\ blocks[last.cb].deleted
  /\ get(State, last.cb).thrown = AlreadyDeleted
  /\ ~heap[blocks[last.cb].ptr].live

\* ------------------------------------------------------------------------
\* C21
\* ------------------------------------------------------------------------

\* the living control blocks that point to address a and will delete the
\* object with their last handle: those that are not acquired
C21_OwningBlocks(a) ==
  {c \in CBs : Lives(c) /\ blocks[c].ptr = a /\ ~blocks[c].acquired}

\* C21: single owner - in every state of the single-threaded program each
\* live object has exactly one party that will destroy it: either exactly
\* one living control block that points to it is not acquired and no
\* unique_ptr holds its address, or exactly one unique_ptr holds its address
\* and every living control block that points to it is acquired.
C21_SingleOwner ==
  \A a \in Addrs :
    heap[a].live
    => \/ (Cardinality(C21_OwningBlocks(a)) = 1 /\ uniques[a] = 0)
       \/ (uniques[a] = 1 /\ C21_OwningBlocks(a) = {})

\* unique_ptr() has just taken a live object from the control block that
\* owned it, while another, acquired control block points to the object too:
\* the one owner is the unique_ptr
C21_Witness ==
  /\ last.op = "unique_ptr"
  /\ last.thrown = "none"
  /\ last.ret # 0
  /\ heap[last.ret].live
  /\ uniques[last.ret] = 1
  /\ C21_OwningBlocks(last.ret) = {}
  /\ \E c \in CBs : /\ c # last.cb
                    /\ Lives(c)
                    /\ blocks[c].ptr = last.ret
                    /\ blocks[c].acquired
====
